---- MODULE Spec2Model ----
(***************************************************************************)
(* simple-blog-cms: the content store (posts, pages, comments), the slug   *)
(* generator, the uniqueness resolver, the content lifecycle handlers of   *)
(* server/src/handlers/posts.ts and server/src/handlers/pages.ts, and the  *)
(* comment handlers.                                                       *)
(*                                                                         *)
(* Text is a sequence of one-character strings, so that generateSlug and   *)
(* the `${baseSlug}-${counter}` candidates are computed character by       *)
(* character.  A nullable timestamp is << >> (null) or <<t>> (a Date).     *)
(*                                                                         *)
(* Spec          createPost / createPage calls whose awaits interleave     *)
(*               (one store round trip per step), the store answering      *)
(*               every query.                                              *)
(* SpecSeq       the same calls, one at a time.                            *)
(* SpecLifecycle sequential create / update / publish / unpublish calls.   *)
(* SpecResolve   one call against a store already holding base, base-1,    *)
(*               ..., where a slug lookup may also throw.                  *)
(* SpecComments  the comment handlers and deletePost against a few stored   *)
(*               posts, their store round trips interleaving.              *)
(* SpecModeration comments created and moderated while the clock runs.     *)
(* SpecSearch    sequential createPost / createPage calls and searches.    *)
(***************************************************************************)
EXTENDS Integers, Sequences, FiniteSets, TLC

VARIABLES posts, pages, nextPostId, nextPageId, now, calls, started, resp,
          comments, nextCommentId, ccall, moderation

\* commentsTable, its serial, the comment handler call in flight and, for
\* every comment id handed out, the last moderation applied to it
commentVars == <<comments, nextCommentId, ccall, moderation>>

vars == <<posts, pages, nextPostId, nextPageId, now, calls, started, resp,
          commentVars>>

(***************************************************************************)
(* Bounds of the model.                                                    *)
(***************************************************************************)
MaxCreates == 3
MaxLifecycleCreates == 2
MaxClock == 2
MaxStored == 101
MaxComments == 2
MaxCommentPosts == 2
MaxTitleLen == 3

\* the cap of ensureUniqueSlug (pages.ts: `if (counter > 100)`)
MaxAttempts == 100

Calls == {"c1", "c2"}
SlotRank(c) == IF c = "c1" THEN 1 ELSE 2

NULL == << >>
Date(t) == <<t>>

(***************************************************************************)
(* Characters and text.                                                    *)
(***************************************************************************)
Whitespace == {" "}
WordChars ==
  {"a", "A", "b", "B", "0", "1", "2", "3", "4", "5", "6", "7", "8", "9", "_"}

\* String.prototype.toLowerCase, per character
LowerChar(c) == IF c = "A" THEN "a" ELSE IF c = "B" THEN "b" ELSE c

ToLowerCase(s) == [i \in 1..Len(s) |-> LowerChar(s[i])]

\* String.prototype.trim: drop leading and trailing whitespace
RECURSIVE TrimStart(_)
TrimStart(s) ==
  IF s # << >> /\ Head(s) \in Whitespace THEN TrimStart(Tail(s)) ELSE s

RECURSIVE TrimEnd(_)
TrimEnd(s) ==
  IF s # << >> /\ s[Len(s)] \in Whitespace
  THEN TrimEnd(SubSeq(s, 1, Len(s) - 1))
  ELSE s

Trim(s) == TrimEnd(TrimStart(s))

\* .replace(/[^\w\s-]/g, '')
RemoveSpecial(s) ==
  SelectSeq(s, LAMBDA c : c \in WordChars \cup Whitespace \cup {"-"})

\* .replace(/[class]+/g, '-'): every maximal run of characters of `class`
\* becomes one hyphen
RECURSIVE ReplaceRuns(_, _)
ReplaceRuns(s, class) ==
  IF s = << >> THEN << >>
  ELSE IF Head(s) \in class
       THEN IF Len(s) > 1 /\ s[2] \in class
            THEN ReplaceRuns(Tail(s), class)
            ELSE <<"-">> \o ReplaceRuns(Tail(s), class)
       ELSE <<Head(s)>> \o ReplaceRuns(Tail(s), class)

\* .replace(/^-+|-+$/g, ''): every leading and trailing hyphen
RECURSIVE StripLeadingHyphens(_)
StripLeadingHyphens(s) ==
  IF s # << >> /\ Head(s) = "-" THEN StripLeadingHyphens(Tail(s)) ELSE s

RECURSIVE StripTrailingHyphens(_)
StripTrailingHyphens(s) ==
  IF s # << >> /\ s[Len(s)] = "-"
  THEN StripTrailingHyphens(SubSeq(s, 1, Len(s) - 1))
  ELSE s

StripHyphens(s) == StripTrailingHyphens(StripLeadingHyphens(s))

\* .replace(/^-|-$/g, ''): one leading hyphen, then one trailing hyphen
StripOneHyphen(s) ==
  LET a == IF s # << >> /\ Head(s) = "-" THEN Tail(s) ELSE s
  IN IF a # << >> /\ a[Len(a)] = "-" THEN SubSeq(a, 1, Len(a) - 1) ELSE a

\* posts.ts generateSlug
PostGenerateSlug(title) ==
  StripHyphens(
    ReplaceRuns(RemoveSpecial(Trim(ToLowerCase(title))),
                Whitespace \cup {"_", "-"}))

\* pages.ts generateSlug
PageGenerateSlug(title) ==
  LET slug == StripOneHyphen(
                ReplaceRuns(
                  ReplaceRuns(RemoveSpecial(Trim(ToLowerCase(title))),
                              Whitespace),
                  {"-"}))
  IN IF slug = << >> THEN <<"p", "a", "g", "e">> ELSE slug

generateSlug(kind, title) ==
  IF kind = "post" THEN PostGenerateSlug(title) ELSE PageGenerateSlug(title)

\* the decimal text of a number, as `${counter}` writes it
DigitChars == <<"0", "1", "2", "3", "4", "5", "6", "7", "8", "9">>

RECURSIVE NumberToString(_)
NumberToString(n) ==
  IF n < 10 THEN <<DigitChars[n + 1]>>
  ELSE NumberToString(n \div 10) \o <<DigitChars[(n % 10) + 1]>>

\* a resolver whose counter is read one too far
SuffixedSlugOffByOne(baseSlug, counter) ==
  baseSlug \o <<"-">> \o NumberToString(counter + 1)

\* `${baseSlug}-${counter}`
SuffixedSlug(baseSlug, counter) ==
  baseSlug \o <<"-">> \o NumberToString(counter)

(***************************************************************************)
(* The input boundary (server/src/schema.ts, applied by index.ts before    *)
(* the handler runs).  A raw input is [title, content, excerpt, status,    *)
(* scheduled_at, seo_title, seo_description, seo_keywords] with status     *)
(* "omitted" when the caller leaves it out.  A nullable text is << >>      *)
(* (null or left out) or <<text>>.                                         *)
(***************************************************************************)
ContentStatus == {"draft", "scheduled", "published", "unpublished"}

\* createPostInputSchema / createPageInputSchema accept the raw input
createInputAccepts(raw) ==
  /\ Len(raw.title) >= 1
  /\ raw.status \in ContentStatus \cup {"omitted"}

\* the parsed input: status defaults to 'draft'
createInputParse(raw) ==
  [title |-> raw.title,
   content |-> raw.content,
   excerpt |-> raw.excerpt,
   status |-> IF raw.status = "omitted" THEN "draft" ELSE raw.status,
   scheduled_at |-> raw.scheduled_at,
   seo_title |-> raw.seo_title,
   seo_description |-> raw.seo_description,
   seo_keywords |-> raw.seo_keywords]

(***************************************************************************)
(* The content store: postsTable and pagesTable, rows in insertion order.  *)
(***************************************************************************)
Table(kind) == IF kind = "post" THEN posts ELSE pages

NextId(kind) == IF kind = "post" THEN nextPostId ELSE nextPageId

\* a lookup that reads both tables
SelectBySlugAnyTable(table, slug) ==
  SelectSeq(posts \o pages, LAMBDA r : r.slug = slug)

\* db.select().from(table).where(eq(table.slug, slug)).limit(1)
SelectBySlug(table, slug) ==
  LET hits == {i \in 1..Len(table) : table[i].slug = slug}
  IN IF hits = {} THEN << >>
     ELSE <<table[CHOOSE i \in hits : \A j \in hits : i <= j]>>

\* db.select().from(table).where(eq(table.id, id))
SelectById(table, id) == SelectSeq(table, LAMBDA r : r.id = id)

\* a slug column declared without .unique()
ViolatesUniqueSlugNever(table, row) == FALSE

\* slug: text('slug').notNull().unique(): the insert of a row is refused
\* when a stored row has its slug
ViolatesUniqueSlug(table, row) ==
  \E i \in 1..Len(table) : table[i].slug = row.slug

\* `input.excerpt || null`: a text left out, null or empty is stored null
OrNull(text) == IF text = <<<< >>>> THEN NULL ELSE text

\* the row db.insert(...).values(...).returning() writes: id from the
\* serial column, created_at / updated_at from defaultNow()
NewRow(id, input, slug, publishedAt, time) ==
  [id |-> id,
   title |-> input.title,
   slug |-> slug,
   content |-> input.content,
   excerpt |-> OrNull(input.excerpt),
   seo_title |-> OrNull(input.seo_title),
   seo_description |-> OrNull(input.seo_description),
   seo_keywords |-> OrNull(input.seo_keywords),
   status |-> input.status,
   published_at |-> publishedAt,
   scheduled_at |-> input.scheduled_at,
   created_at |-> Date(time),
   updated_at |-> Date(time)]

(***************************************************************************)
(* A createPost / createPage call in flight.                               *)
(***************************************************************************)
NoInput ==
  [title |-> << >>, content |-> << >>, excerpt |-> NULL, status |-> "draft",
   scheduled_at |-> NULL, seo_title |-> NULL, seo_description |-> NULL,
   seo_keywords |-> NULL]

IdleCall ==
  [pc |-> "idle", kind |-> "post", input |-> NoInput, baseSlug |-> << >>,
   slug |-> << >>, counter |-> 1, tries |-> 0, publishedAt |-> NULL,
   outcome |-> "none", result |-> << >>, startedAt |-> 0]

\* the caller holds the outcome of its latest call only: `calls` that of a
\* create, `resp` that of a lifecycle call, with the stored row the call
\* was made for, if any
NoResp == [op |-> "none", kind |-> "post", id |-> 0, before |-> << >>,
           row |-> << >>]

InFlight(c) == calls[c].pc \in {"lookup", "insert"}

\* a new call takes the first slot that holds no call in flight
FreeSlot(c) ==
  /\ ~InFlight(c)
  /\ \A d \in Calls : ~InFlight(d) => SlotRank(c) <= SlotRank(d)

\* a catch that swallows the error: the call answers as if it had succeeded
ReturnedAlwaysOk(call, outcome, result) ==
  [IdleCall EXCEPT !.pc = "done", !.kind = call.kind, !.input = call.input,
                   !.outcome = "ok", !.result = result,
                   !.startedAt = call.startedAt]

\* the call has returned or thrown: its locals are gone, the caller holds
\* what it passed in and the outcome
Returned(call, outcome, result) ==
  [IdleCall EXCEPT !.pc = "done", !.kind = call.kind, !.input = call.input,
                   !.outcome = outcome, !.result = result,
                   !.startedAt = call.startedAt]

NoneInFlight == \A c \in Calls : ~InFlight(c)

\* no comment handler call in flight
IdleCommentCall == [pc |-> "idle", op |-> "none", input |-> << >>]

\* an empty commentsTable
CommentsInit ==
  /\ comments = << >>
  /\ nextCommentId = 1
  /\ ccall = IdleCommentCall
  /\ moderation = << >>

Init ==
  /\ posts = << >>
  /\ pages = << >>
  /\ nextPostId = 1
  /\ nextPageId = 1
  /\ now = 1
  /\ calls = [c \in Calls |-> IdleCall]
  /\ started = 0
  /\ resp = NoResp
  /\ CommentsInit

\* the clock advances
Tick ==
  /\ now < MaxClock
  /\ now' = now + 1
  /\ UNCHANGED <<posts, pages, nextPostId, nextPageId, calls, started, resp>>
  /\ UNCHANGED commentVars

\* admin.posts.create / admin.pages.create receives an input the schema
\* refuses: the handler does not run
RejectInput(c, kind, raw) ==
  /\ FreeSlot(c)
  /\ started < MaxCreates
  /\ ~createInputAccepts(raw)
  /\ started' = started + 1
  /\ calls' = [calls EXCEPT ![c] =
       [IdleCall EXCEPT !.pc = "done", !.kind = kind, !.input = raw,
                        !.outcome = "ValidationError",
                        !.startedAt = now]]
  /\ resp' = NoResp
  /\ UNCHANGED <<posts, pages, nextPostId, nextPageId, now>>
  /\ UNCHANGED commentVars

\* createPost / createPage up to its first await: the base slug is
\* generated and the first candidate is the base slug itself
StartCreate(c, kind, raw) ==
  /\ FreeSlot(c)
  /\ started < MaxCreates
  /\ createInputAccepts(raw)
  /\ started' = started + 1
  /\ LET input == createInputParse(raw)
         baseSlug == generateSlug(kind, input.title)
     IN calls' = [calls EXCEPT ![c] =
          [IdleCall EXCEPT !.pc = "lookup", !.kind = kind, !.input = input,
                           !.baseSlug = baseSlug, !.slug = baseSlug,
                           !.startedAt = now]]
  /\ resp' = NoResp
  /\ UNCHANGED <<posts, pages, nextPostId, nextPageId, now>>
  /\ UNCHANGED commentVars

\* a handler that stamps every status but 'draft'
PublishedAtForNonDraft(status, time) ==
  IF status # "draft" THEN Date(time) ELSE NULL

\* a handler that never stamps
PublishedAtForNever(status, time) == NULL

\* `input.status === 'published' ? new Date() : null`
PublishedAtFor(status, time) ==
  IF status = "published" THEN Date(time) ELSE NULL

\* one iteration of generateUniqueSlug / ensureUniqueSlug whose lookup
\* answers: the candidate is returned when no row has it, else the next
\* candidate is `${baseSlug}-${counter}`
Lookup(c) ==
  /\ calls[c].pc = "lookup"
  /\ LET call == calls[c]
         existing == SelectBySlug(Table(call.kind), call.slug)
     IN calls' = [calls EXCEPT ![c] =
          IF Len(existing) = 0
          THEN [call EXCEPT !.pc = "insert", !.tries = call.tries + 1,
                  !.publishedAt = PublishedAtFor(call.input.status, now)]
          ELSE [call EXCEPT !.slug = SuffixedSlug(call.baseSlug, call.counter),
                            !.counter = call.counter + 1,
                            !.tries = call.tries + 1]]
  /\ UNCHANGED <<posts, pages, nextPostId, nextPageId, now, started, resp>>
  /\ UNCHANGED commentVars

\* one iteration whose lookup throws.  generateUniqueSlug has no try: the
\* error leaves createPost.  ensureUniqueSlug catches it, moves to the next
\* candidate and gives up once counter exceeds the cap
LookupThrows(c) ==
  /\ calls[c].pc = "lookup"
  /\ LET call == calls[c]
     IN calls' = [calls EXCEPT ![c] =
          IF call.kind = "post"
          THEN Returned(call, "StoreError", << >>)
          ELSE IF call.counter + 1 > MaxAttempts
               THEN Returned(call, "SlugGenerationError", << >>)
               ELSE [call EXCEPT
                       !.slug = SuffixedSlug(call.baseSlug, call.counter),
                       !.counter = call.counter + 1,
                       !.tries = call.tries + 1]]
  /\ UNCHANGED <<posts, pages, nextPostId, nextPageId, now, started, resp>>
  /\ UNCHANGED commentVars

\* db.insert(...).values(...).returning(): the row is stored and returned,
\* or the unique constraint refuses it and the handler's catch rethrows
Insert(c) ==
  /\ calls[c].pc = "insert"
  /\ LET call == calls[c]
         table == Table(call.kind)
         row == NewRow(NextId(call.kind), call.input, call.slug,
                       call.publishedAt, now)
         refused == ViolatesUniqueSlug(table, row)
         table2 == IF refused THEN table ELSE Append(table, row)
     IN /\ calls' = [calls EXCEPT ![c] =
             IF refused
             THEN Returned(call, "UniquenessConflictError", << >>)
             ELSE Returned(call, "ok", <<row>>)]
        /\ posts' = IF call.kind = "post" THEN table2 ELSE posts
        /\ pages' = IF call.kind = "page" THEN table2 ELSE pages
        /\ nextPostId' = IF call.kind = "post" THEN nextPostId + 1
                         ELSE nextPostId
        /\ nextPageId' = IF call.kind = "page" THEN nextPageId + 1
                         ELSE nextPageId
  /\ UNCHANGED <<now, started, resp>>
  /\ UNCHANGED commentVars

(***************************************************************************)
(* The lifecycle handlers.  updatePost, publishPost, unpublishPost and     *)
(* their page twins return a row built from constants and their input;     *)
(* none of them reads or writes the store.                                 *)
(***************************************************************************)
\* the row the handler returns (its status and timestamps; the other
\* fields are literals)
LifecycleRow(id, status, publishedAt) ==
  [id |-> id, status |-> status, published_at |-> publishedAt,
   scheduled_at |-> NULL]

Lifecycle(op, kind, id, row) ==
  /\ NoneInFlight
  /\ resp' = [op |-> op, kind |-> kind, id |-> id,
              before |-> SelectById(Table(kind), id), row |-> <<row>>]
  /\ calls' = [c \in Calls |-> IdleCall]
  /\ UNCHANGED <<posts, pages, nextPostId, nextPageId, now, started>>
  /\ UNCHANGED commentVars

\* updatePost / updatePage
Update(kind, id) ==
  Lifecycle("update", kind, id, LifecycleRow(id, "draft", NULL))

\* publishPost / publishPage
Publish(kind, id) ==
  Lifecycle("publish", kind, id, LifecycleRow(id, "published", Date(now)))

\* unpublishPost / unpublishPage
Unpublish(kind, id) ==
  Lifecycle("unpublish", kind, id, LifecycleRow(id, "unpublished", NULL))

(***************************************************************************)
(* The comment handlers and deletePost.  createComment and getPostComments *)
(* make two store round trips (the post lookup, then the insert or the     *)
(* select); updateCommentStatus and deleteComment make one.  The caller    *)
(* holds the latest response in `resp`.                                    *)
(***************************************************************************)
\* a response of a comment handler or of deletePost
Response(op, id, outcome, result) ==
  [op |-> op, kind |-> "comment", id |-> id, before |-> << >>,
   row |-> result, outcome |-> outcome]

\* a lookup that finds a post whatever the id
PostFoundAlways(table, id) == TRUE

\* `post.length === 0` is false: a stored post has the id
PostFound(table, id) == Len(SelectById(table, id)) # 0

\* a handler that stores comments already approved
ApprovalAtCreateApproved(input) == TRUE

\* `is_approved: false // Comments require approval by default`
ApprovalAtCreate(input) == FALSE

\* the row db.insert(commentsTable).values(...).returning() writes
NewComment(id, input, time) ==
  [id |-> id,
   post_id |-> input.post_id,
   author_name |-> input.author_name,
   author_email |-> input.author_email,
   content |-> input.content,
   is_approved |-> ApprovalAtCreate(input),
   created_at |-> Date(time),
   updated_at |-> Date(time)]

\* createComment up to its insert: the post lookup; 'Post not found' is
\* thrown when no post has the id
CreateCommentCheck(input) ==
  /\ ccall.pc = "idle"
  /\ nextCommentId <= MaxComments
  /\ IF PostFound(posts, input.post_id)
     THEN /\ ccall' = [pc |-> "insert", op |-> "createComment",
                       input |-> input]
          /\ resp' = resp
     ELSE /\ ccall' = ccall
          /\ resp' = Response("createComment", input.post_id,
                              "PostNotFound", << >>)
  /\ UNCHANGED <<posts, pages, nextPostId, nextPageId, now, calls, started,
                 comments, nextCommentId, moderation>>

\* createComment's insert and return
CreateCommentInsert ==
  /\ ccall.pc = "insert"
  /\ LET row == NewComment(nextCommentId, ccall.input, now)
     IN /\ comments' = Append(comments, row)
        /\ resp' = Response("createComment", ccall.input.post_id, "ok",
                            <<row>>)
  /\ nextCommentId' = nextCommentId + 1
  /\ moderation' = Append(moderation, "none")
  /\ ccall' = IdleCommentCall
  /\ UNCHANGED <<posts, pages, nextPostId, nextPageId, now, calls, started>>

\* an update that writes true whatever it is given
ApprovalToSetTrue(input) == TRUE

\* `.set({ is_approved: input.is_approved, ... })`
ApprovalToSet(input) == input.is_approved

\* a where clause that matches every comment
CommentIdMatchesAny(row, id) == TRUE

\* `.where(eq(commentsTable.id, input.id))`
CommentIdMatches(row, id) == row.id = id

\* moderation[id] becomes `action` for every comment id among `rows`
Moderated(rows, action) ==
  [i \in 1..Len(moderation) |->
     IF \E j \in 1..Len(rows) : rows[j].id = i THEN action
     ELSE moderation[i]]

\* updateCommentStatus: one update ... returning; 'Comment not found' when
\* it returns no row
UpdateCommentStatus(input) ==
  /\ LET updated(r) == [r EXCEPT !.is_approved = ApprovalToSet(input),
                                 !.updated_at = Date(now)]
         table2 == [i \in 1..Len(comments) |->
                      IF CommentIdMatches(comments[i], input.id)
                      THEN updated(comments[i]) ELSE comments[i]]
         result == SelectSeq(comments,
                             LAMBDA r : CommentIdMatches(r, input.id))
     IN /\ comments' = table2
        /\ moderation' = Moderated(result,
                           IF input.is_approved THEN "approved"
                           ELSE "unapproved")
        /\ resp' = IF Len(result) = 0
                   THEN Response("updateCommentStatus", input.id,
                                 "CommentNotFound", << >>)
                   ELSE Response("updateCommentStatus", input.id, "ok",
                                 <<updated(result[1])>>)
  /\ UNCHANGED <<posts, pages, nextPostId, nextPageId, now, calls, started,
                 nextCommentId, ccall>>

\* a delete that answers success when it removed nothing
DeleteOutcomeAlwaysOk(result) == "ok"

\* `if (result.length === 0) throw new Error('Comment not found')`
DeleteOutcome(result) == IF Len(result) = 0 THEN "CommentNotFound" ELSE "ok"

\* deleteComment: one delete ... returning
DeleteComment(input) ==
  /\ LET result == SelectSeq(comments,
                             LAMBDA r : CommentIdMatches(r, input.id))
     IN /\ comments' = SelectSeq(comments,
                         LAMBDA r : ~CommentIdMatches(r, input.id))
        /\ moderation' = Moderated(result, "deleted")
        /\ resp' = Response("deleteComment", input.id, DeleteOutcome(result),
                            IF DeleteOutcome(result) = "ok"
                            THEN <<[success |-> TRUE]>> ELSE << >>)
  /\ UNCHANGED <<posts, pages, nextPostId, nextPageId, now, calls, started,
                 nextCommentId, ccall>>

\* getPostComments up to its select: the post lookup
GetPostCommentsCheck(input) ==
  /\ ccall.pc = "idle"
  /\ IF PostFound(posts, input.id)
     THEN /\ ccall' = [pc |-> "select", op |-> "getPostComments",
                       input |-> input]
          /\ resp' = resp
     ELSE /\ ccall' = ccall
          /\ resp' = Response("getPostComments", input.id, "PostNotFound",
                              << >>)
  /\ UNCHANGED <<posts, pages, nextPostId, nextPageId, now, calls, started,
                 comments, nextCommentId, moderation>>

\* a select that forgets the approval condition
CommentVisibleOfPost(row, postId) == row.post_id = postId

\* `and(eq(commentsTable.post_id, input.id),
\*      eq(commentsTable.is_approved, true))`
CommentVisible(row, postId) ==
  row.post_id = postId /\ row.is_approved = TRUE

\* getPostComments' select and return
GetPostCommentsSelect ==
  /\ ccall.pc = "select"
  /\ resp' = Response("getPostComments", ccall.input.id, "ok",
                      SelectSeq(comments,
                                LAMBDA r : CommentVisible(r, ccall.input.id)))
  /\ ccall' = IdleCommentCall
  /\ UNCHANGED <<posts, pages, nextPostId, nextPageId, now, calls, started,
                 comments, nextCommentId, moderation>>

\* getAllComments: one select of commentsTable without a where clause
GetAllComments ==
  /\ resp' = Response("getAllComments", 0, "ok", comments)
  /\ UNCHANGED <<posts, pages, nextPostId, nextPageId, now, calls, started,
                 commentVars>>

\* a where clause that matches every comment
CommentPendingAny(row) == TRUE

\* `.where(eq(commentsTable.is_approved, false))`
CommentPending(row) == row.is_approved = FALSE

\* getPendingComments: one select of the comments not approved
GetPendingComments ==
  /\ resp' = Response("getPendingComments", 0, "ok",
                      SelectSeq(comments, CommentPending))
  /\ UNCHANGED <<posts, pages, nextPostId, nextPageId, now, calls, started,
                 commentVars>>

\* deletePost: answers success; it reads and writes no table
DeletePost(input) ==
  /\ resp' = [Response("deletePost", input.id, "ok", <<[success |-> TRUE]>>)
              EXCEPT !.kind = "post"]
  /\ UNCHANGED <<posts, pages, nextPostId, nextPageId, now, calls, started,
                 commentVars>>

(***************************************************************************)
(* The search handlers (server/src/handlers/search.ts).  Each runs one     *)
(* select whose where clause ORs `column ILIKE '%' + query + '%'` over     *)
(* the text columns and ANDs `status = 'published'`.                       *)
(***************************************************************************)
\* `%${input.query}%`
SearchTerm(query) == <<"%">> \o query \o <<"%">>

\* the pattern ends inside an escape: the store refuses it
RECURSIVE PatternEndsInEscape(_)
PatternEndsInEscape(p) ==
  IF p = << >> THEN FALSE
  ELSE IF Head(p) = "\\"
       THEN Len(p) = 1 \/ PatternEndsInEscape(Tail(Tail(p)))
       ELSE PatternEndsInEscape(Tail(p))

\* text ILIKE pattern: % stands for any run of characters, _ for any one
\* character, \ makes the next character literal, letters match without
\* regard to case
RECURSIVE ILike(_, _)
ILike(text, p) ==
  IF p = << >> THEN text = << >>
  ELSE IF Head(p) = "%"
       THEN ILike(text, Tail(p)) \/ (text # << >> /\ ILike(Tail(text), p))
  ELSE IF text = << >> THEN FALSE
  ELSE IF Head(p) = "_" THEN ILike(Tail(text), Tail(p))
  ELSE IF Head(p) = "\\"
       THEN /\ Len(p) >= 2
            /\ LowerChar(p[2]) = LowerChar(Head(text))
            /\ ILike(Tail(text), Tail(Tail(p)))
  ELSE /\ LowerChar(Head(p)) = LowerChar(Head(text))
       /\ ILike(Tail(text), Tail(p))

\* ilike(column, searchTerm) on a nullable column: null matches nothing
NullableILike(column, p) == column # NULL /\ ILike(column[1], p)

\* the or(...) of searchPosts
PostMatches(row, p) ==
  \/ ILike(row.title, p)
  \/ ILike(row.content, p)
  \/ NullableILike(row.excerpt, p)
  \/ NullableILike(row.seo_title, p)
  \/ NullableILike(row.seo_description, p)
  \/ NullableILike(row.seo_keywords, p)

\* the or(...) of searchPages
PageMatches(row, p) ==
  \/ ILike(row.title, p)
  \/ ILike(row.content, p)
  \/ NullableILike(row.seo_title, p)
  \/ NullableILike(row.seo_description, p)
  \/ NullableILike(row.seo_keywords, p)

\* a where clause without the status condition
StatusIsSearchableAny(row) == TRUE

\* eq(table.status, 'published')
StatusIsSearchable(row) == row.status = "published"

\* ascending order of a nullable time column: nulls come last
SortsBefore(a, b) == a # NULL /\ (b = NULL \/ a[1] < b[1])

\* a select without its orderBy: the rows in table order
OrderByTableOrder(rows, column) == rows

\* .orderBy(column): ascending, rows of equal time in table order
OrderBy(rows, column) ==
  LET n == Len(rows)
      rank(i) == 1 + Cardinality({j \in 1..n :
                   \/ SortsBefore(rows[j][column], rows[i][column])
                   \/ rows[j][column] = rows[i][column] /\ j < i})
  IN [k \in 1..n |-> rows[CHOOSE i \in 1..n : rank(i) = k]]

\* the rows the select of searchPosts / searchPages returns
SearchRows(kind, query) ==
  LET p == SearchTerm(query)
  IN IF kind = "post"
     THEN OrderBy(SelectSeq(posts, LAMBDA r : PostMatches(r, p)
                                              /\ StatusIsSearchable(r)),
                  "published_at")
     ELSE OrderBy(SelectSeq(pages, LAMBDA r : PageMatches(r, p)
                                              /\ StatusIsSearchable(r)),
                  "updated_at")

\* the total of a SearchResult counting the posts only
ResultTotalOfPosts(postRows, pageRows) == Len(postRows)

\* the total of a SearchResult: posts.length + pages.length
ResultTotal(postRows, pageRows) == Len(postRows) + Len(pageRows)

\* a response of a search handler: `row` the posts or pages found (the
\* posts for searchContent), `pages` and `total` the rest of a SearchResult
SearchResponse(op, kind, input, outcome, rows, pageRows) ==
  [op |-> op, kind |-> kind, id |-> 0, before |-> << >>, row |-> rows,
   outcome |-> outcome, input |-> input, pages |-> pageRows,
   total |-> ResultTotal(rows, pageRows)]

\* searchPosts / searchPages: the select throws on a pattern the store
\* refuses and the catch rethrows
Search(op, kind, input) ==
  /\ NoneInFlight
  /\ resp' = IF PatternEndsInEscape(SearchTerm(input.query))
             THEN SearchResponse(op, kind, input, "StoreError", << >>, << >>)
             ELSE SearchResponse(op, kind, input, "ok",
                                 SearchRows(kind, input.query), << >>)
  /\ calls' = [c \in Calls |-> IdleCall]
  /\ UNCHANGED <<posts, pages, nextPostId, nextPageId, now, started>>
  /\ UNCHANGED commentVars

SearchPosts(input) == Search("searchPosts", "post", input)

SearchPages(input) == Search("searchPages", "page", input)

\* searchContent: Promise.all of searchPosts and searchPages, whatever
\* input.type is
SearchContent(input) ==
  /\ NoneInFlight
  /\ resp' = IF PatternEndsInEscape(SearchTerm(input.query))
             THEN SearchResponse("searchContent", "all", input, "StoreError",
                                 << >>, << >>)
             ELSE SearchResponse("searchContent", "all", input, "ok",
                                 SearchRows("post", input.query),
                                 SearchRows("page", input.query))
  /\ calls' = [c \in Calls |-> IdleCall]
  /\ UNCHANGED <<posts, pages, nextPostId, nextPageId, now, started>>
  /\ UNCHANGED commentVars

(***************************************************************************)
(* Specifications.                                                         *)
(***************************************************************************)
Kinds == {"post", "page"}

TitleA == <<"a">>
TitleA1 == <<"A", " ", "1">>

\* raw inputs of the slug specifications: the titles vary
SlugInputs ==
  [title : {<< >>, TitleA, TitleA1},
   status : {"omitted", "published"},
   scheduled_at : {NULL},
   content : {<<"c">>}, excerpt : {NULL}, seo_title : {NULL},
   seo_description : {NULL}, seo_keywords : {NULL}]

\* raw inputs of the lifecycle specification: status and scheduled_at vary
LifecycleInputs ==
  [title : {TitleA},
   status : ContentStatus \cup {"omitted"},
   scheduled_at : {NULL, Date(MaxClock + 1)},
   content : {<<"c">>}, excerpt : {NULL}, seo_title : {NULL},
   seo_description : {NULL}, seo_keywords : {NULL}]

\* raw inputs of the resolver specification
ResolveInputs ==
  [title : {TitleA}, status : {"omitted"}, scheduled_at : {NULL},
   content : {<<"c">>}, excerpt : {NULL}, seo_title : {NULL},
   seo_description : {NULL}, seo_keywords : {NULL}]

Next ==
  \/ \E c \in Calls, kind \in Kinds, raw \in SlugInputs :
       RejectInput(c, kind, raw)
  \/ \E c \in Calls, kind \in Kinds, raw \in SlugInputs :
       StartCreate(c, kind, raw)
  \/ \E c \in Calls : Lookup(c)
  \/ \E c \in Calls : Insert(c)

Spec == Init /\ [][Next]_vars

\* one call at a time
NextSeq ==
  \/ \E c \in Calls, kind \in Kinds, raw \in SlugInputs :
       NoneInFlight /\ RejectInput(c, kind, raw)
  \/ \E c \in Calls, kind \in Kinds, raw \in SlugInputs :
       NoneInFlight /\ StartCreate(c, kind, raw)
  \/ \E c \in Calls : Lookup(c)
  \/ \E c \in Calls : Insert(c)

SpecSeq == Init /\ [][NextSeq]_vars

\* the content type a behaviour of SpecLifecycle works on: the posts
\* handlers and the pages handlers share no state
Untouched(kind) == Len(Table(kind)) = 0 /\ NextId(kind) = 1

OtherKind(kind) == IF kind = "post" THEN "page" ELSE "post"

\* sequential create, update, publish and unpublish calls on one content
\* type, the clock running
NextLifecycle ==
  \/ Tick
  \/ \E c \in Calls, kind \in Kinds, raw \in LifecycleInputs :
       /\ NoneInFlight
       /\ Untouched(OtherKind(kind))
       /\ started < MaxLifecycleCreates
       /\ StartCreate(c, kind, raw)
  \/ \E c \in Calls : Lookup(c)
  \/ \E c \in Calls : Insert(c)
  \/ \E kind \in Kinds : \E id \in 1..NextId(kind) :
       ~Untouched(kind) /\ Update(kind, id)
  \/ \E kind \in Kinds : \E id \in 1..NextId(kind) :
       ~Untouched(kind) /\ Publish(kind, id)
  \/ \E kind \in Kinds : \E id \in 1..NextId(kind) :
       ~Untouched(kind) /\ Unpublish(kind, id)

SpecLifecycle == Init /\ [][NextLifecycle]_vars

\* the rows n sequential creations of TitleA leave: base, base-1, ...
Stored(kind, n) ==
  LET base == generateSlug(kind, TitleA)
      input == createInputParse([NoInput EXCEPT !.title = TitleA,
                                                !.content = <<"c">>,
                                                !.status = "omitted"])
  IN [i \in 1..n |->
        NewRow(i, input, IF i = 1 THEN base ELSE SuffixedSlug(base, i - 1),
               NULL, 1)]

InitResolve ==
  \E n \in 0..MaxStored, kind \in Kinds :
    /\ posts = IF kind = "post" THEN Stored("post", n) ELSE << >>
    /\ pages = IF kind = "page" THEN Stored("page", n) ELSE << >>
    /\ nextPostId = IF kind = "post" THEN n + 1 ELSE 1
    /\ nextPageId = IF kind = "page" THEN n + 1 ELSE 1
    /\ now = 1
    /\ calls = [c \in Calls |-> IdleCall]
    /\ started = 0
    /\ resp = NoResp
    /\ CommentsInit

\* one call at a time, every lookup either answering or throwing
NextResolve ==
  \/ \E c \in Calls, kind \in Kinds, raw \in ResolveInputs :
       /\ NoneInFlight
       /\ started < 1
       /\ StartCreate(c, kind, raw)
  \/ \E c \in Calls : Lookup(c)
  \/ \E c \in Calls : LookupThrows(c)
  \/ \E c \in Calls : Insert(c)

SpecResolve == InitResolve /\ [][NextResolve]_vars

\* the parsed inputs of createComment: the post named varies
CommentInputs ==
  [post_id : 1..(MaxCommentPosts + 1), author_name : {<<"n">>},
   author_email : {<<"e">>}, content : {<<"c">>}]

\* the inputs of updateCommentStatus: a comment id, handed out or not
StatusInputs == [id : 1..MaxComments, is_approved : BOOLEAN]

\* commentsTable empty, postsTable holding the rows of earlier createPost
\* calls
InitComments ==
  \E n \in 0..MaxCommentPosts :
    /\ posts = Stored("post", n)
    /\ pages = << >>
    /\ nextPostId = n + 1
    /\ nextPageId = 1
    /\ now = 1
    /\ calls = [c \in Calls |-> IdleCall]
    /\ started = 0
    /\ resp = NoResp
    /\ CommentsInit

\* the comment handlers and deletePost, the two-step handlers interleaving
\* with the one-step ones
NextComments ==
  \/ \E input \in CommentInputs : CreateCommentCheck(input)
  \/ CreateCommentInsert
  \/ \E input \in StatusInputs : UpdateCommentStatus(input)
  \/ \E id \in 1..MaxComments : DeleteComment([id |-> id])
  \/ \E id \in 1..(MaxCommentPosts + 1) : GetPostCommentsCheck([id |-> id])
  \/ GetPostCommentsSelect
  \/ \E id \in 1..(MaxCommentPosts + 1) : DeletePost([id |-> id])

SpecComments == InitComments /\ [][NextComments]_vars

\* comments created and moderated while the clock runs
NextModeration ==
  \/ Tick
  \/ \E input \in CommentInputs : CreateCommentCheck(input)
  \/ CreateCommentInsert
  \/ \E input \in StatusInputs : UpdateCommentStatus(input)

SpecModeration == InitComments /\ [][NextModeration]_vars


\* the text a search is to find, and a title without it
TextAb == <<"A", "b">>
TitleB == <<"b">>

\* raw inputs of the search specification: the plain one, and one per text
\* column holding TextAb; pagesTable has no excerpt
PlainInput ==
  [NoInput EXCEPT !.title = TitleB, !.status = "published"]

SearchCreateInputs(kind) ==
  {[PlainInput EXCEPT !.title = TextAb, !.status = st] : st \in ContentStatus}
    \cup {PlainInput,
          [PlainInput EXCEPT !.content = TextAb],
          [PlainInput EXCEPT !.seo_title = <<TextAb>>],
          [PlainInput EXCEPT !.seo_description = <<TextAb>>],
          [PlainInput EXCEPT !.seo_keywords = <<TextAb>>]}
    \cup (IF kind = "post" THEN {[PlainInput EXCEPT !.excerpt = <<TextAb>>],
                                 [PlainInput EXCEPT !.excerpt = <<<< >>>>]}
          ELSE {})

\* the queries: plain text in either case, text no row holds, and text
\* with the characters ILIKE reads as wildcards or as its escape
Queries ==
  {<<"a">>, <<"a", "B">>, <<"b", "a">>, <<"a", "_">>, <<"%">>, <<"\\">>}

\* searchPosts and searchPages read no type; searchContent is given each
PlainSearchInputs == [query : Queries, type : {"all"}]

SearchInputs == [query : Queries, type : {"all", "posts", "pages"}]

\* sequential createPost / createPage calls and searches.  A search
\* changes no table: each is made from a state the creations leave
NextSearch ==
  \/ \E c \in Calls, kind \in Kinds :
       \E raw \in SearchCreateInputs(kind) :
         /\ NoneInFlight
         /\ started < MaxLifecycleCreates
         /\ StartCreate(c, kind, raw)
  \/ \E c \in Calls : Lookup(c)
  \/ \E c \in Calls : Insert(c)
  \/ \E input \in PlainSearchInputs : resp = NoResp /\ SearchPosts(input)
  \/ \E input \in PlainSearchInputs : resp = NoResp /\ SearchPages(input)
  \/ \E input \in SearchInputs : resp = NoResp /\ SearchContent(input)

SpecSearch == Init /\ [][NextSearch]_vars

\* the characters of the titles of the generator specification: a letter
\* in both cases, a digit, whitespace, underscore, hyphen and a character
\* outside [\w\s-]
TitleAlphabet == {"a", "A", "1", " ", "_", "-", "!"}

\* every title of at most MaxTitleLen characters, the empty one included
Titles == UNION {[1..n -> TitleAlphabet] : n \in 0..MaxTitleLen}

TitleInputs ==
  {[NoInput EXCEPT !.title = t, !.content = <<"c">>, !.status = "omitted"] :
     t \in Titles}

\* one createPost / createPage call of any title on an empty store
NextSlug ==
  \/ \E c \in Calls, kind \in Kinds, raw \in TitleInputs :
       started < 1 /\ RejectInput(c, kind, raw)
  \/ \E c \in Calls, kind \in Kinds, raw \in TitleInputs :
       started < 1 /\ StartCreate(c, kind, raw)
  \/ \E c \in Calls : Lookup(c)
  \/ \E c \in Calls : Insert(c)

SpecSlug == Init /\ [][NextSlug]_vars

\* the listings read no post: every comment names the first one
ListedCommentInputs == {input \in CommentInputs : input.post_id = 1}

\* comments created, moderated and deleted, and the two admin listings
NextCommentLists ==
  \/ \E input \in ListedCommentInputs : CreateCommentCheck(input)
  \/ CreateCommentInsert
  \/ \E input \in StatusInputs : UpdateCommentStatus(input)
  \/ \E id \in 1..MaxComments : DeleteComment([id |-> id])
  \/ GetAllComments
  \/ GetPendingComments

SpecCommentLists == InitComments /\ [][NextCommentLists]_vars

\* the store the failure specification starts from: empty, or one post of
\* TitleA with one comment
InitFailures ==
  \E n \in 0..1 :
    /\ posts = Stored("post", n)
    /\ pages = << >>
    /\ nextPostId = n + 1
    /\ nextPageId = 1
    /\ now = 1
    /\ calls = [c \in Calls |-> IdleCall]
    /\ started = 0
    /\ resp = NoResp
    /\ comments = [i \in 1..n |->
                     NewComment(i, [post_id |-> i, author_name |-> <<"n">>,
                                    author_email |-> <<"e">>,
                                    content |-> <<"c">>], 1)]
    /\ nextCommentId = n + 1
    /\ ccall = IdleCommentCall
    /\ moderation = [i \in 1..n |-> "none"]

\* the call is the first of the behaviour and no other is in flight
RunsAlone(c) == started = 1 /\ \A d \in Calls \ {c} : ~InFlight(d)

\* every call in flight has made at most one lookup
AtFirstLookup == \A d \in Calls : InFlight(d) => calls[d].tries <= 1

\* interleaved createPost / createPage calls of one title: an insert is
\* refused when the other call stored the slug first, and the lookups of
\* the first call may throw.  A long resolution runs alone: a call starts
\* beside one that is at its first lookup
NextFailures ==
  \/ \E c \in Calls, kind \in Kinds, raw \in ResolveInputs :
       AtFirstLookup /\ StartCreate(c, kind, raw)
  \/ \E c \in Calls : Lookup(c)
  \/ \E c \in Calls : RunsAlone(c) /\ LookupThrows(c)
  \/ \E c \in Calls : Insert(c)

SpecFailures == InitFailures /\ [][NextFailures]_vars

\* raw inputs of the ordering specification: two published titles that
\* both hold the query
OrderCreateInputs ==
  {PlainInput, [PlainInput EXCEPT !.title = TextAb]}

OrderSearchInputs == [query : {TitleB}, type : {"all"}]

\* interleaved createPost / createPage calls while the clock runs, then a
\* search: a call that took its time first may insert last
NextOrder ==
  \/ Tick
  \/ \E c \in Calls, kind \in Kinds, raw \in OrderCreateInputs :
       started < MaxLifecycleCreates /\ StartCreate(c, kind, raw)
  \/ \E c \in Calls : Lookup(c)
  \/ \E c \in Calls : Insert(c)
  \/ \E input \in OrderSearchInputs : resp = NoResp /\ SearchPosts(input)
  \/ \E input \in OrderSearchInputs : resp = NoResp /\ SearchPages(input)

SpecOrder == Init /\ [][NextOrder]_vars

(***************************************************************************)
(* Properties.                                                             *)
(***************************************************************************)
StoredRows(kind) == {Table(kind)[i] : i \in 1..Len(Table(kind))}

\* C1: no two stored posts share a slug and no two stored pages share a
\* slug
SlugUniquePerType ==
  /\ \A i, j \in 1..Len(posts) : posts[i].slug = posts[j].slug => i = j
  /\ \A i, j \in 1..Len(pages) : pages[i].slug = pages[j].slug => i = j

\* a title stored twice as a post, beside a stored page
SameTitleStoredTwice ==
  /\ \E i, j \in 1..Len(posts) : i < j /\ posts[i].title = posts[j].title
  /\ Len(pages) >= 1

\* every creation of the content type so far had the same base slug
SameBaseSlug(kind) ==
  \A r, q \in StoredRows(kind) :
    generateSlug(kind, r.title) = generateSlug(kind, q.title)

Ordinals == <<<<"1">>, <<"2">>, <<"3">>, <<"4">>, <<"5">>, <<"6">>>>

\* base, base-1, base-2, ...
NthSlug(base, n) == IF n = 1 THEN base ELSE base \o <<"-">> \o Ordinals[n - 1]

OneRowPerSlug ==
  \A kind \in Kinds : \A r \in StoredRows(kind) :
    Cardinality({i \in 1..Len(Table(kind)) : Table(kind)[i].slug = r.slug}) = 1

\* the insert of call c is answered in this step
InsertAnswered(c) == calls[c].pc = "insert" /\ calls'[c].pc = "done"

\* C3: whatever the interleaving of the lookups and inserts of concurrent
\* creations, no table ever holds a slug twice, and an insert whose slug a
\* row already has is refused and leaves the tables as they are
ConstraintKeepsSlugsUnique ==
  /\ []OneRowPerSlug
  /\ [][\A c \in Calls :
          InsertAnswered(c) =>
            IF \E r \in StoredRows(calls[c].kind) : r.slug = calls[c].slug
            THEN /\ posts' = posts
                 /\ pages' = pages
                 /\ calls'[c].outcome = "UniquenessConflictError"
            ELSE calls'[c].outcome = "ok"]_vars

\* an insert was refused by the unique constraint
InsertRefused ==
  \E c \in Calls : calls[c].outcome = "UniquenessConflictError"

\* C4: no creation ends with the store's uniqueness error: the handler
\* retries until the call has a slug of its own
ConflictNeverSurfaces ==
  \A c \in Calls :
    calls[c].pc = "done" /\ createInputAccepts(calls[c].input)
      => calls[c].outcome = "ok"

\* C5: slug resolution tries at most 100 candidates
ResolutionCapped ==
  \A c \in Calls : calls[c].tries <= MaxAttempts

\* C6: a successful createPost / createPage stores and returns a row whose
\* published_at is the time of the call when the status is 'published'
\* and null when it is 'draft' or 'scheduled'
CreateStampsPublishedAt ==
  \A c \in Calls :
    calls[c].outcome = "ok" =>
      LET row == calls[c].result[1]
          status == calls[c].input.status
      IN /\ SelectById(Table(calls[c].kind), row.id) = <<row>>
         /\ row.status = status
         /\ status = "published" =>
              /\ row.published_at # NULL
              /\ row.published_at[1] >= calls[c].startedAt
              /\ row.published_at[1] <= row.created_at[1]
         /\ status \in {"draft", "scheduled"} => row.published_at = NULL

\* a call made after the clock moved returned a published row
PublishedCreatedLater ==
  \E c \in Calls :
    /\ calls[c].outcome = "ok"
    /\ calls[c].input.status = "published"
    /\ calls[c].startedAt > 1
    /\ calls[c].result[1].published_at = Date(calls[c].startedAt)

\* C7: every stored row with status 'published' has a published_at and
\* every stored row with status 'unpublished' has none
PublishedAtAgreesWithStatus ==
  \A kind \in Kinds : \A r \in StoredRows(kind) :
    /\ r.status = "published" => r.published_at # NULL
    /\ r.status = "unpublished" => r.published_at = NULL

\* a published and an unpublished row are stored and a lifecycle call was
\* made for one of them
LifecycleCallOnMixedStore ==
  /\ resp.op \in {"update", "publish", "unpublish"}
  /\ resp.before # << >>
  /\ \E r \in StoredRows(resp.kind) : r.status = "published"
  /\ \E r \in StoredRows(resp.kind) : r.status = "unpublished"

\* C8: after publishPost / publishPage for a stored row, the stored row is
\* 'published', with published_at the time of the call and updated_at
\* not before it
PublishPersists ==
  (resp.op = "publish" /\ resp.before # << >>) =>
    LET stored == SelectById(Table(resp.kind), resp.id)
    IN /\ stored # << >>
       /\ stored[1].status = "published"
       /\ stored[1].published_at = resp.row[1].published_at
       /\ stored[1].updated_at[1] >= resp.row[1].published_at[1]

\* C9: after unpublishPost / unpublishPage for a stored published row, the
\* stored row is 'unpublished' with a null published_at
UnpublishPersists ==
  (/\ resp.op = "unpublish"
   /\ resp.before # << >>
   /\ resp.before[1].status = "published") =>
    LET stored == SelectById(Table(resp.kind), resp.id)
    IN /\ stored # << >>
       /\ stored[1].status = "unpublished"
       /\ stored[1].published_at = NULL

\* C10: every stored row with status 'scheduled' has a scheduled_at and no
\* published_at
ScheduledHasScheduledAt ==
  \A kind \in Kinds : \A r \in StoredRows(kind) :
    r.status = "scheduled" =>
      r.scheduled_at # NULL /\ r.published_at = NULL

\* some stored post has the id
PostStored(id) == \E i \in 1..Len(posts) : posts[i].id = id

\* some stored comment has the id
CommentStored(id) == \E i \in 1..Len(comments) : comments[i].id = id

\* C11: the comment a successful createComment returns is stored as
\* returned, with is_approved = false
CreatedCommentUnapproved ==
  (resp.op = "createComment" /\ resp.outcome = "ok") =>
    /\ resp.row[1].is_approved = FALSE
    /\ SelectById(comments, resp.row[1].id) = resp.row

\* a comment was created while an approved comment is stored
CommentCreatedBesideApproved ==
  /\ resp.op = "createComment"
  /\ resp.outcome = "ok"
  /\ \E i \in 1..Len(comments) : comments[i].is_approved

\* C12: a stored comment is approved exactly when the last moderation
\* applied to it since its creation is an updateCommentStatus with
\* is_approved = true, a deleted comment is not stored, and getPostComments
\* returns only comments whose last moderation is that approval
ApprovalOnlyByModeration ==
  /\ Len(moderation) = nextCommentId - 1
  /\ \A i \in 1..Len(comments) :
       comments[i].is_approved <=> moderation[comments[i].id] = "approved"
  /\ \A id \in 1..Len(moderation) :
       moderation[id] = "deleted" => ~CommentStored(id)
  /\ (resp.op = "getPostComments" /\ resp.outcome = "ok") =>
       \A j \in 1..Len(resp.row) : moderation[resp.row[j].id] = "approved"

\* getPostComments returned a comment while a comment approved and then
\* unapproved is stored
ReturnedBesideUnapproved ==
  /\ resp.op = "getPostComments"
  /\ Len(resp.row) >= 1
  /\ \E i \in 1..Len(comments) :
       moderation[comments[i].id] = "unapproved"

\* C13: getPostComments answers 'Post not found' when no post has the id,
\* and otherwise returns each stored comment of that post with is_approved
\* = true once, and nothing else
PostCommentsAreApprovedOfPost ==
  resp.op = "getPostComments" =>
    IF PostStored(resp.id)
    THEN /\ resp.outcome = "ok"
         /\ {resp.row[j] : j \in 1..Len(resp.row)} =
              {comments[i] : i \in {k \in 1..Len(comments) :
                 comments[k].post_id = resp.id /\ comments[k].is_approved}}
         /\ \A j, k \in 1..Len(resp.row) :
              resp.row[j].id = resp.row[k].id => j = k
    ELSE resp.outcome = "PostNotFound" /\ resp.row = << >>

\* getPostComments returned the one approved comment of a post that also
\* has a pending comment
ApprovedReturnedPendingHidden ==
  /\ resp.op = "getPostComments"
  /\ Len(resp.row) = 1
  /\ \E i \in 1..Len(comments) :
       comments[i].post_id = resp.id /\ ~comments[i].is_approved

\* C14: a createComment whose post_id no stored post has ends at its post
\* lookup with 'Post not found', and the stored comments stay as they are
CreateCommentNeedsPost ==
  [][\A input \in CommentInputs :
       (CreateCommentCheck(input) /\ ~PostStored(input.post_id)) =>
         /\ ccall'.pc = "idle"
         /\ resp'.op = "createComment"
         /\ resp'.outcome = "PostNotFound"
         /\ comments' = comments
         /\ nextCommentId' = nextCommentId]_vars

\* createComment failed for a missing post while comments are stored
CreateCommentRefused ==
  /\ resp.op = "createComment"
  /\ resp.outcome = "PostNotFound"
  /\ Len(comments) >= 1

\* C15: updateCommentStatus for an id no comment has answers 'Comment not
\* found' and changes nothing; otherwise the comment of that id gets the
\* given is_approved and updated_at = now, keeps its other fields, is
\* returned, and every other comment stays as it is
UpdateStatusTouchesOneComment ==
  [][\A input \in StatusInputs :
       UpdateCommentStatus(input) =>
         IF CommentStored(input.id)
         THEN /\ Len(comments') = Len(comments)
              /\ \A i \in 1..Len(comments) :
                   comments'[i] =
                     IF comments[i].id = input.id
                     THEN [comments[i] EXCEPT
                             !.is_approved = input.is_approved,
                             !.updated_at = Date(now)]
                     ELSE comments[i]
              /\ resp'.outcome = "ok"
              /\ resp'.row = SelectById(comments', input.id)
              /\ resp'.row[1].updated_at[1] >= resp'.row[1].created_at[1]
         ELSE /\ comments' = comments
              /\ resp'.outcome = "CommentNotFound"]_vars

\* a comment was moderated after the clock moved, beside another comment
StatusUpdatedLater ==
  /\ resp.op = "updateCommentStatus"
  /\ resp.outcome = "ok"
  /\ resp.row[1].updated_at # resp.row[1].created_at
  /\ Len(comments) >= 2

\* C16: deleteComment for an id no comment has answers 'Comment not found'
\* and changes nothing; otherwise it removes the comment of that id only
\* and answers success; a deleted id is never stored again
DeleteRemovesOneComment ==
  /\ [](\A id \in 1..Len(moderation) :
          moderation[id] = "deleted" => ~CommentStored(id))
  /\ [][\A id \in 1..MaxComments :
          DeleteComment([id |-> id]) =>
            IF CommentStored(id)
            THEN /\ comments' = SelectSeq(comments, LAMBDA r : r.id # id)
                 /\ Len(comments') = Len(comments) - 1
                 /\ resp'.outcome = "ok"
                 /\ resp'.row = <<[success |-> TRUE]>>
            ELSE /\ comments' = comments
                 /\ resp'.outcome = "CommentNotFound"]_vars

\* a second deleteComment of an id failed while another comment is stored
SecondDeleteFailed ==
  /\ resp.op = "deleteComment"
  /\ resp.outcome = "CommentNotFound"
  /\ resp.id <= Len(moderation)
  /\ moderation[resp.id] = "deleted"
  /\ Len(comments) >= 1

\* C17: after deletePost answered success, no stored post has the id and
\* no stored comment has it as post_id
DeletePostRemovesPostAndComments ==
  (resp.op = "deletePost" /\ resp.outcome = "ok") =>
    /\ ~PostStored(resp.id)
    /\ \A i \in 1..Len(comments) : comments[i].post_id # resp.id

FoundPosts == IF resp.op = "searchPages" THEN << >> ELSE resp.row

FoundPages == IF resp.op = "searchPages" THEN resp.row ELSE resp.pages

SearchOps == {"searchPosts", "searchPages", "searchContent"}

\* C19: every post and page a search returns is a stored row whose status
\* is 'published'
SearchReturnsPublishedOnly ==
  resp.op \in SearchOps =>
    /\ \A j \in 1..Len(FoundPosts) :
         /\ SelectById(posts, FoundPosts[j].id) = <<FoundPosts[j]>>
         /\ FoundPosts[j].status = "published"
    /\ \A j \in 1..Len(FoundPages) :
         /\ SelectById(pages, FoundPages[j].id) = <<FoundPages[j]>>
         /\ FoundPages[j].status = "published"

\* a search found a published post while a post of the same title that is
\* not published is stored
UnpublishedTwinNotFound ==
  /\ resp.op = "searchPosts"
  /\ Len(resp.row) >= 1
  /\ \E i \in 1..Len(posts) :
       posts[i].status # "published" /\ posts[i].title = resp.row[1].title

\* query, compared without regard to case, is a substring of text
ContainsText(text, query) ==
  \E k \in 0..(Len(text) - Len(query)) :
    \A i \in 1..Len(query) : LowerChar(text[k + i]) = LowerChar(query[i])

NullableContainsText(column, query) ==
  column # NULL /\ ContainsText(column[1], query)

\* the query is a substring of one of the row's text columns
RowContainsText(kind, row, query) ==
  \/ ContainsText(row.title, query)
  \/ ContainsText(row.content, query)
  \/ kind = "post" /\ NullableContainsText(row.excerpt, query)
  \/ NullableContainsText(row.seo_title, query)
  \/ NullableContainsText(row.seo_description, query)
  \/ NullableContainsText(row.seo_keywords, query)

\* C20: searchPosts / searchPages return exactly the published rows one of
\* whose text columns has the query as a substring, compared without
\* regard to case
SearchIsSubstringMatch ==
  resp.op \in {"searchPosts", "searchPages"} =>
    /\ resp.outcome = "ok"
    /\ {resp.row[j] : j \in 1..Len(resp.row)} =
         {r \in StoredRows(resp.kind) :
            /\ r.status = "published"
            /\ RowContainsText(resp.kind, r, resp.input.query)}

\* C21: a successful searchContent returns as posts what searchPosts
\* returns and as pages what searchPages returns for the same query in the
\* same store, and its total is posts.length + pages.length
SearchContentCombines ==
  resp.op = "searchContent" /\ resp.outcome = "ok" =>
    /\ resp.row = SearchRows("post", resp.input.query)
    /\ resp.pages = SearchRows("page", resp.input.query)
    /\ resp.total = Len(resp.row) + Len(resp.pages)

\* searchContent found a post and a page
ContentFoundBothTypes ==
  /\ resp.op = "searchContent"
  /\ resp.outcome = "ok"
  /\ Len(resp.row) >= 1
  /\ Len(resp.pages) >= 1
  /\ resp.total = 2

\* C22: searchContent honours input.type: with 'posts' the pages list is
\* empty, with 'pages' the posts list is empty
SearchContentHonoursType ==
  resp.op = "searchContent" /\ resp.outcome = "ok" =>
    /\ resp.input.type = "posts" => resp.pages = << >>
    /\ resp.input.type = "pages" => resp.row = << >>

\* the characters of ^[a-z0-9-]+$ among those of the model
SlugChars ==
  {"a", "b", "0", "1", "2", "3", "4", "5", "6", "7", "8", "9", "-"}

FallbackSlug == <<"p", "a", "g", "e">>

MatchesSlugPattern(slug) ==
  /\ slug # << >>
  /\ \A i \in 1..Len(slug) : slug[i] \in SlugChars

\* C23: the slug generateSlug produces for a title, of a post or of a
\* page, matches ^[a-z0-9-]+$ or is the fallback token: it holds no
\* underscore, no upper-case letter and no whitespace
GeneratedSlugMatchesPattern ==
  \A c \in Calls :
    InFlight(c) =>
      \/ MatchesSlugPattern(calls[c].baseSlug)
      \/ calls[c].baseSlug = FallbackSlug

\* no character of the title is a word character
NoWordChar(title) == \A i \in 1..Len(title) : title[i] \notin WordChars

\* C24: no stored slug is empty, and a page whose title holds whitespace
\* and punctuation only is stored with the slug 'page'
StoredSlugNeverEmpty ==
  /\ \A kind \in Kinds : \A r \in StoredRows(kind) : r.slug # << >>
  /\ \A r \in StoredRows("page") : NoWordChar(r.title) => r.slug = FallbackSlug

\* C28: for a title whose slug is not empty, the posts generator and the
\* pages generator return the same slug
GeneratorsAgree ==
  \A c \in Calls :
    InFlight(c) /\ PostGenerateSlug(calls[c].input.title) # << >> =>
      /\ calls[c].baseSlug = PostGenerateSlug(calls[c].input.title)
      /\ calls[c].baseSlug = PageGenerateSlug(calls[c].input.title)

StoredComments == {comments[i] : i \in 1..Len(comments)}

\* the rows of a response, none listed twice
Listed(rows) == {rows[j] : j \in 1..Len(rows)}

ListedOnce(rows) ==
  \A j, k \in 1..Len(rows) : rows[j].id = rows[k].id => j = k

\* C25: getPendingComments returns exactly the stored comments with
\* is_approved = false, getAllComments returns every stored comment, and
\* the latter are the disjoint union of the pending and the approved ones
CommentListsPartition ==
  /\ resp.op = "getPendingComments" =>
       /\ ListedOnce(resp.row)
       /\ Listed(resp.row) = {r \in StoredComments : r.is_approved = FALSE}
  /\ resp.op = "getAllComments" =>
       /\ ListedOnce(resp.row)
       /\ Listed(resp.row) = StoredComments
       /\ Listed(resp.row) =
            {r \in StoredComments : r.is_approved = FALSE}
              \cup {r \in StoredComments : r.is_approved = TRUE}
       /\ Len(resp.row) =
            Cardinality({r \in StoredComments : r.is_approved = FALSE})
              + Cardinality({r \in StoredComments : r.is_approved = TRUE})

\* getPendingComments listed one comment while an approved one is stored
PendingListedBesideApproved ==
  /\ resp.op = "getPendingComments"
  /\ Len(resp.row) = 1
  /\ \E r \in StoredComments : r.is_approved = TRUE

\* the rows of the content type stored before the row was
StoredBefore(kind, row) == {r \in StoredRows(kind) : r.id < row.id}

\* the first of base, base-1, base-2, ... that is not among `taken`
FirstFreeCandidate(base, taken) ==
  NthSlug(base,
          CHOOSE n \in 1..(Cardinality(taken) + 1) :
            /\ NthSlug(base, n) \notin taken
            /\ \A m \in 1..(n - 1) : NthSlug(base, m) \in taken)

CreateErrors == {"StoreError", "SlugGenerationError", "UniquenessConflictError"}

\* C29: the step that ends a createPost / createPage call in failure leaves
\* posts, pages and comments as they were and hands the error to the
\* caller; the step that ends it in success appends exactly the returned
\* row to the call's table and leaves every other row as it was; no other
\* step of a creation writes a table
CreateFailsCleanOrAddsOne ==
  [][/\ \A c \in Calls :
          InFlight(c) /\ calls'[c].pc = "done" =>
            IF calls'[c].outcome = "ok"
            THEN /\ Len(calls'[c].result) = 1
                 /\ posts' = IF calls[c].kind = "post"
                             THEN Append(posts, calls'[c].result[1])
                             ELSE posts
                 /\ pages' = IF calls[c].kind = "page"
                             THEN Append(pages, calls'[c].result[1])
                             ELSE pages
                 /\ comments' = comments
            ELSE /\ calls'[c].outcome \in CreateErrors
                 /\ calls'[c].result = << >>
                 /\ posts' = posts
                 /\ pages' = pages
                 /\ comments' = comments
     /\ posts' # posts \/ pages' # pages \/ comments' # comments =>
          \E c \in Calls :
            InFlight(c) /\ calls'[c].pc = "done" /\ calls'[c].outcome = "ok"
    ]_vars

\* a creation was refused by the store while the row that took its slug,
\* an earlier post and its comment are stored
RefusedBesideStoredRows ==
  /\ \E c \in Calls :
       /\ calls[c].pc = "done"
       /\ calls[c].outcome = "UniquenessConflictError"
       /\ \E r \in StoredRows(calls[c].kind) :
            r.title = calls[c].input.title /\ r.created_at = Date(now)
  /\ Len(posts) >= 1
  /\ Len(comments) >= 1

\* the column a search handler orders by
OrderColumn(kind) == IF kind = "post" THEN "published_at" ELSE "updated_at"

\* C30: searchPosts lists its matches by ascending published_at and
\* searchPages by ascending updated_at: of two returned rows, the one
\* listed first has the time that is not later
SearchResultsAscending ==
  resp.op \in {"searchPosts", "searchPages"} /\ resp.outcome = "ok" =>
    \A j, k \in 1..Len(resp.row) :
      j < k =>
        /\ resp.row[j][OrderColumn(resp.kind)] # NULL
        /\ resp.row[k][OrderColumn(resp.kind)] # NULL
        /\ resp.row[j][OrderColumn(resp.kind)][1]
             <= resp.row[k][OrderColumn(resp.kind)][1]

\* searchPosts listed a post stored later before a post stored earlier,
\* its published_at being the earlier one
LaterRowListedFirst ==
  /\ resp.op = "searchPosts"
  /\ resp.outcome = "ok"
  /\ Len(resp.row) = 2
  /\ resp.row[1].id > resp.row[2].id
  /\ resp.row[1].published_at[1] < resp.row[2].published_at[1]

====
